---- MODULE Spec2Model ----
(***************************************************************************)
(* A state-machine model of the Whisper Docker provider.                   *)
(*                                                                         *)
(* Two provider variants of the repository are modelled:                   *)
(*   - the provider with a constructor/config injected docker service      *)
(*     (src/unnamed/part_000), variant "injected";                         *)
(*   - the provider built on onServiceReady() that hands out               *)
(*     WhisperDockerModel facades (src/src/WhisperDockerProvider.ts        *)
(*     lines 357-473, src/src/WhisperDockerModel.ts), variant              *)
(*     "onServiceReady".                                                   *)
(* A behaviour of Spec uses one of them, chosen in its initial state.      *)
(* The orchestration collaborator (docker service) and the remote HTTP     *)
(* service are fakes: every result they can give is a nondeterministic     *)
(* input of the action that consumes it.                                   *)
(***************************************************************************)
EXTENDS Integers, Sequences, FiniteSets, TLC

VARIABLES
    variant,              \* which provider of the repository this run uses
    dockerServiceManager, \* provider field: bound collaborator handle or NoService
    apiClient,            \* provider field: <<>> (undefined) or <<client record>>
    config,               \* provider field: <<>> (undefined) or <<last config>>
    svcRunning,           \* fake collaborator: the container is running
    svcInfo,              \* fake collaborator: <<ports>> when getServiceInfo()
                          \* returns {ports}, <<>> when it throws
    startInvocations,     \* fake collaborator: startService() call counter
    stopInvocations,      \* fake collaborator: stopService() call counter
    pc,                   \* per caller: the await it is suspended at
    held,                 \* per caller: what its in-flight operation captured
    ret,                  \* result of the operation that completed last
    ops,                  \* number of operations issued so far
    facadeClient,         \* onServiceReady provider: apiClient field
    models                \* WhisperDockerModel objects handed out by getModel

vars == <<variant, dockerServiceManager, apiClient, config, svcRunning, svcInfo,
          startInvocations, stopInvocations, pc, held, ret, ops,
          facadeClient, models>>

facadeVars == <<facadeClient, models>>

-----------------------------------------------------------------------------
(* Bounds of the model *)

\* Operations the callers issue in one behaviour.
MaxOps == 3

\* WhisperDockerModel objects handed out in one behaviour.
MaxModels == 2

Callers == {"c1", "c2"}

-----------------------------------------------------------------------------
(* Values *)

NoService == "none"

\* `http://localhost:${port}` hard-coded fallback port
DefaultPort == 9000

\* new WhisperAPIClient(baseUrl, 30000)
DefaultTimeout == 30000

\* Port lists the fake docker service may report.  Ports are positive, so
\* the only falsy ports?.[0] is the one of the empty list.
PortLists == {<<>>, <<9000>>, <<9001, 9002>>, <<9002>>}

\* What getServiceInfo() of the fake may do: return {ports}, or throw.
Infos == {<<ports>> : ports \in PortLists} \cup {<<>>}

\* getServiceInfo() throws.
InfoThrows(info) == info = <<>>

\* getServiceInfo().ports (of an info that does not throw).
InfoPorts(info) == IF info = <<>> THEN <<>> ELSE info[1]

\* Messages of the exceptions the fake collaborator throws.
ErrMsgs == {"docker daemon unreachable"}

\* What a collaborator call can do: resolve true, resolve false, or throw.
CallOutcomes == {"true", "false", "throw"}

\* What WhisperAPIClient.checkHealth() can do: resolve true, resolve false,
\* or reject (network error, timeout).
ProbeOutcomes == {"healthy", "unhealthy", "error"}

\* Template literal `http://localhost:${port}`.
LocalUrl(port) == "http://localhost:" \o ToString(port)

\* new WhisperAPIClient(baseUrl, timeout)
Client(baseUrl, timeout) == [baseUrl |-> baseUrl, timeout |-> timeout]

\* Input formats the README lists as supported.
SupportedFormats ==
    {"mp3", "wav", "flac", "m4a", "ogg", "wma", "aac", "opus", "webm"}

\* Maximum file size of the README, in MB.
MaxFileSizeMB == 25

\* The task option of transform().
Tasks == {"transcribe", "translate"}

\* An audio input: the file name as <<stem, extension>> and its size in MB.
NoInput == [file |-> <<"", "">>, mb |-> 0]

\* The audio inputs callers pass to transform().
Inputs ==
    {[file |-> <<"speech", "wav">>, mb |-> 1],
     [file |-> <<"test", "txt">>, mb |-> 1],
     [file |-> <<"speech", "mp3">>, mb |-> MaxFileSizeMB + 1],
     [file |-> <<"speech", "webm">>, mb |-> MaxFileSizeMB]}

\* The extension of a file name.
Extension(file) == file[2]

\* An input of a supported format within the size limit.
ValidInput(input) ==
    /\ Extension(input.file) \in SupportedFormats
    /\ input.mb <= MaxFileSizeMB

\* The capabilities the manifest declares for a model.
Capabilities(id) ==
    IF id = "whisper-stt" THEN {"audio-to-text"}
    ELSE IF id \in {"whisper-base", "whisper-small"}
    THEN {"audio-to-text", "transcription"}
    ELSE IF id \in {"whisper-medium", "whisper-large"}
    THEN {"audio-to-text", "transcription", "translation"}
    ELSE {}

\* Result record of a completed operation.
\*   op      the operation
\*   threw   it raised to its caller instead of returning
\*   ok      its boolean result (start/stop result, isAvailable, healthy)
\*   running the running field of a status result
\*   url     the base URL of the client a request was sent through
\*   err     the error message the result carries ("" = undefined)
\*   thrown  message of the exception the collaborator threw inside the
\*           operation ("" = it did not throw)
\*   text    the text of a transcription result
\*   model   the model id a result names
\*   before  the lifecycle status when the operation was called
\*   caller  the caller the result went to
\*   probe   what checkHealth() did inside the operation ("" = not called)
\*   input, task   the audio input and the task option of a transform()
\*   requests      transcription requests the operation sent to the remote
\*   answers       what the remote answered to each of these requests
\*   report        what the collaborator's getServiceStatus() reported
NoResult ==
    [op |-> "none", threw |-> FALSE, ok |-> FALSE, running |-> FALSE,
     url |-> "", err |-> "", thrown |-> "", text |-> "", model |-> "",
     before |-> "", caller |-> "", probe |-> "",
     input |-> NoInput, task |-> "", requests |-> 0, answers |-> <<>>,
     report |-> <<>>]

\* What a suspended operation holds on to: the base URL of the client it
\* called checkHealth() on, and the lifecycle status at its call.
NoHeld == [url |-> "", before |-> ""]

\* Configuration objects passed to configure(); "" and 0 stand for an
\* absent property, NoService for an absent service alias, <<>> for absent
\* retries (<<n>>: n retries).
NoConfig ==
    [dockerServiceManager |-> NoService, dockerService |-> NoService,
     service |-> NoService, baseUrl |-> "", timeout |-> 0, retries |-> <<>>]

Configs ==
    { NoConfig,
      [NoConfig EXCEPT !.baseUrl = "http://localhost:9000", !.timeout = 300000,
                       !.retries = <<1>>],
      [NoConfig EXCEPT !.dockerServiceManager = "mgrSvc"],
      [NoConfig EXCEPT !.dockerService = "dockSvc", !.service = "plainSvc",
                       !.baseUrl = "http://whisper:8000",
                       !.retries = <<0>>] }

-----------------------------------------------------------------------------
(* The provider of src/unnamed/part_000: pure parts *)

\* setupAPIClientFromService(): the apiClient field after the call.
\* infoThrows: getServiceInfo() throws (caught, client left as it was).
setupAPIClientFromService(manager, infoThrows, ports, client) ==
    IF manager # NoService
    THEN IF infoThrows
         THEN client
         ELSE LET port == IF ports # <<>> THEN ports[1] ELSE DefaultPort
              IN  <<Client(LocalUrl(port), DefaultTimeout)>>
    ELSE client

\* updateAPIClientPort() taking the last reported port instead of the first.
updateAPIClientPortLast(manager, infoThrows, ports, client) ==
    IF manager # NoService
    THEN IF infoThrows
         THEN client
         ELSE IF ports # <<>> /\ ports[Len(ports)] # DefaultPort
              THEN <<Client(LocalUrl(ports[Len(ports)]), DefaultTimeout)>>
              ELSE client
    ELSE client

\* updateAPIClientPort(): the apiClient field after the call.
updateAPIClientPort(manager, infoThrows, ports, client) ==
    IF manager # NoService
    THEN IF infoThrows
         THEN client
         ELSE IF ports # <<>> /\ ports[1] # DefaultPort
              THEN <<Client(LocalUrl(ports[1]), DefaultTimeout)>>
              ELSE client
    ELSE client

\* detectServiceUrl(): the URL, or "" for undefined.
detectServiceUrl(manager, infoThrows, ports) ==
    IF manager # NoService
    THEN IF infoThrows
         THEN ""
         ELSE LET port == IF ports # <<>> THEN ports[1] ELSE DefaultPort
              IN  LocalUrl(port)
    ELSE ""

\* configure() that binds the config's service also when one is bound.
configureManagerRebinds(manager, cfg) ==
    IF cfg.dockerServiceManager # NoService THEN cfg.dockerServiceManager
    ELSE IF cfg.dockerService # NoService THEN cfg.dockerService
    ELSE IF cfg.service # NoService THEN cfg.service
    ELSE manager

\* configure(): the dockerServiceManager field after the call.
configureManager(manager, cfg) ==
    IF manager = NoService
    THEN IF cfg.dockerServiceManager # NoService THEN cfg.dockerServiceManager
         ELSE IF cfg.dockerService # NoService THEN cfg.dockerService
         ELSE IF cfg.service # NoService THEN cfg.service
         ELSE NoService
    ELSE manager

\* configure(): the apiClient field after the call (manager: the
\* dockerServiceManager field as configure has just set it).
configureClient(manager, cfg, infoThrows, ports, client) ==
    IF client = <<>>
    THEN LET detected == detectServiceUrl(manager, infoThrows, ports)
             baseUrl  == IF cfg.baseUrl # "" THEN cfg.baseUrl
                         ELSE IF detected # "" THEN detected
                         ELSE "http://localhost:9000"
             timeout  == IF cfg.timeout # 0 THEN cfg.timeout ELSE DefaultTimeout
         IN  <<Client(baseUrl, timeout)>>
    ELSE client

\* startService() once the collaborator's startService() has settled:
\* the result returned to the caller.
startServiceResult(outcome, msg) ==
    [NoResult EXCEPT !.op = "start",
                     !.ok = (outcome = "true"),
                     !.thrown = IF outcome = "throw" THEN msg ELSE ""]

\* startService() without a docker service manager.
startServiceUnbound == [NoResult EXCEPT !.op = "start"]

\* stopService() once the collaborator's stopService() has settled.
stopServiceResult(outcome, msg) ==
    [NoResult EXCEPT !.op = "stop",
                     !.ok = (outcome = "true"),
                     !.thrown = IF outcome = "throw" THEN msg ELSE ""]

\* stopService() without a docker service manager.
stopServiceUnbound == [NoResult EXCEPT !.op = "stop"]

\* Status reports of the fake collaborator: {running, health, error}.
Healths == {"healthy", "unhealthy", "unknown"}

\* What the collaborator's getServiceStatus() handed the provider: <<>> when
\* it threw, <<report>> otherwise (error "" = no error property).
StatusReport(outcome, running, health, msg) ==
    IF outcome = "throw"
    THEN <<>>
    ELSE <<[running |-> running, health |-> health, error |-> msg]>>

\* getServiceStatus() that hands on the collaborator's error whatever the
\* reported health is.
getServiceStatusResultAnyError(outcome, running, health, msg) ==
    IF outcome = "throw"
    THEN [NoResult EXCEPT !.op = "status", !.err = msg, !.thrown = msg]
    ELSE [NoResult EXCEPT !.op = "status",
                          !.running = running,
                          !.ok = (health = "healthy"),
                          !.err = msg]

\* getServiceStatus() once the collaborator's getServiceStatus() has
\* settled.  outcome "throw": it threw msg; otherwise it reported
\* {running, health, error: msg}.
getServiceStatusResult(outcome, running, health, msg) ==
    IF outcome = "throw"
    THEN [NoResult EXCEPT !.op = "status", !.err = msg, !.thrown = msg]
    ELSE [NoResult EXCEPT !.op = "status",
                          !.running = running,
                          !.ok = (health = "healthy"),
                          !.err = IF health = "unhealthy" THEN msg ELSE ""]

\* getServiceStatus() without a docker service manager.
getServiceStatusUnbound ==
    [NoResult EXCEPT !.op = "status", !.err = "No Docker service manager"]

\* isAvailable() without an API client.
isAvailableUnconfigured == [NoResult EXCEPT !.op = "isAvailable"]

\* isAvailable() without its try/catch: a rejected checkHealth() reaches the
\* caller.
isAvailableResultNoCatch(url, probe) ==
    [NoResult EXCEPT !.op = "isAvailable", !.url = url,
                     !.ok = (probe = "healthy"),
                     !.threw = (probe = "error")]

\* isAvailable() once checkHealth() on the client at url has settled:
\* a rejection is caught and becomes false.
isAvailableResult(url, probe) ==
    [NoResult EXCEPT !.op = "isAvailable", !.url = url,
                     !.ok = (probe = "healthy")]

\* getHealth() around the isAvailable() result r: status healthy iff
\* available, lastError 'Service not available' otherwise.
getHealthResult(r) ==
    IF r.threw
    THEN [r EXCEPT !.op = "getHealth", !.threw = FALSE, !.ok = FALSE,
                   !.err = "probe failed"]
    ELSE [r EXCEPT !.op = "getHealth",
                   !.err = IF r.ok THEN "" ELSE "Service not available"]

-----------------------------------------------------------------------------
(* WhisperAPIClient: the transcription request and its retries *)

\* The number of retries of a client: the constructor takes a base URL and
\* a timeout only, so every client has the documented default.
DefaultRetries == 1

\* What the remote does with one transcription request.
RemoteAnswers == {"ok", "http400", "transport", "timeout"}

\* The answers that are retried.
Retryable == {"transport", "timeout"}

\* The attempts a client makes at most.
MaxAttempts(client) == DefaultRetries + 1

\* What the remote would answer to the first, second, ... request of a call.
Scripts == [1..(DefaultRetries + 1) -> RemoteAnswers]

\* The number of requests a call sends when the remote follows script:
\* up to the first answer that is not retried, maxAttempts at most.
RequestsSent(script, maxAttempts) ==
    IF \E i \in 1..maxAttempts : script[i] \notin Retryable
    THEN CHOOSE i \in 1..maxAttempts :
            /\ script[i] \notin Retryable
            /\ \A j \in 1..(i - 1) : script[j] \in Retryable
    ELSE maxAttempts

\* transcribe() that repeats the request after every answer but a success,
\* a 4xx answer included.
transcribeResultRetry400(client, script) ==
    LET n    == IF \E i \in 1..MaxAttempts(client) : script[i] = "ok"
                THEN CHOOSE i \in 1..MaxAttempts(client) :
                        /\ script[i] = "ok"
                        /\ \A j \in 1..(i - 1) : script[j] # "ok"
                ELSE MaxAttempts(client)
         last == script[n]
    IN  [NoResult EXCEPT !.op = "transcribe", !.url = client.baseUrl,
                         !.requests = n,
                         !.answers = [i \in 1..n |-> script[i]],
                         !.ok = (last = "ok"),
                         !.threw = (last # "ok"),
                         !.err = IF last = "ok" THEN ""
                                 ELSE IF last = "http400" THEN "InvalidRequest"
                                 ELSE "ServiceUnavailable"]

\* transcribe() of the client against a remote that follows script: the
\* request is repeated after a transport failure or timeout until
\* MaxAttempts requests were sent; a 4xx answer ends the call at once.
transcribeResult(client, script) ==
    LET n    == RequestsSent(script, MaxAttempts(client))
        last == script[n]
    IN  [NoResult EXCEPT !.op = "transcribe", !.url = client.baseUrl,
                         !.requests = n,
                         !.answers = [i \in 1..n |-> script[i]],
                         !.ok = (last = "ok"),
                         !.threw = (last # "ok"),
                         !.err = IF last = "ok" THEN ""
                                 ELSE IF last = "http400" THEN "InvalidRequest"
                                 ELSE "ServiceUnavailable"]

-----------------------------------------------------------------------------
(* Callers and the fake collaborator *)

\* The lifecycle status as the collaborator and the pending calls show it.
\* Neither provider keeps a status field of its own.
Status ==
    IF \E c \in Callers : pc[c] = "awaitStart" THEN "Starting"
    ELSE IF \E c \in Callers : pc[c] = "awaitStop" THEN "Stopping"
    ELSE IF svcRunning THEN "Running"
    ELSE "Stopped"

\* A caller may issue an operation.
CanCall(c) == pc[c] = "idle" /\ ops < MaxOps

\* Caller c issues an operation.
Calls(c) == CanCall(c) /\ ops' = ops + 1

\* The run uses the provider of src/unnamed/part_000.
Injected == variant = "injected"

\* The run uses the provider built on onServiceReady().
Facade == variant = "onServiceReady"

\* The operation c has just called completes without suspending, with
\* result r.
Returns(c, r) ==
    /\ ret' = [r EXCEPT !.before = Status, !.caller = c]
    /\ UNCHANGED <<pc, held>>

\* The operation c has just called suspends at the await named label,
\* having sent a request to url ("" = none).
Awaits(c, label, url) ==
    /\ pc' = [pc EXCEPT ![c] = label]
    /\ held' = [held EXCEPT ![c] = [url |-> url, before |-> Status]]
    /\ UNCHANGED ret

\* The operation of c suspended at label resumes and completes with r.
Resumes(c, label, r) ==
    /\ pc[c] = label
    /\ pc' = [pc EXCEPT ![c] = "idle"]
    /\ held' = [held EXCEPT ![c] = NoHeld]
    /\ ret' = [r EXCEPT !.before = held[c].before, !.caller = c]
    /\ UNCHANGED ops

-----------------------------------------------------------------------------
(* The provider of src/unnamed/part_000: state machine *)

\* State left untouched by every operation of the part_000 provider.
facadeIdle == UNCHANGED <<variant, facadeClient, models>>

\* new WhisperDockerProvider(dockerService?) on a stopped service.
InitInjected ==
    /\ variant = "injected"
    /\ \E dockerService \in {NoService, "ctorSvc"}, info \in Infos :
          /\ dockerServiceManager = dockerService
          /\ svcInfo = info
          /\ apiClient = setupAPIClientFromService(dockerService,
                             InfoThrows(info), InfoPorts(info), <<>>)
    /\ config = <<>>
    /\ svcRunning = FALSE
    /\ startInvocations = 0
    /\ stopInvocations = 0
    /\ pc = [c \in Callers |-> "idle"]
    /\ held = [c \in Callers |-> NoHeld]
    /\ ret = NoResult
    /\ ops = 0
    /\ facadeClient = <<>>
    /\ models = <<>>

\* configure(config): runs to completion, it awaits nothing.
Configure(c, cfg) ==
    /\ Injected
    /\ Calls(c)
    /\ config' = <<cfg>>
    /\ dockerServiceManager' = configureManager(dockerServiceManager, cfg)
    /\ apiClient' = configureClient(dockerServiceManager', cfg,
                          InfoThrows(svcInfo), InfoPorts(svcInfo), apiClient)
    /\ Returns(c, [NoResult EXCEPT !.op = "configure"])
    /\ UNCHANGED <<svcRunning, svcInfo, startInvocations, stopInvocations>>
    /\ facadeIdle

\* A transcription request through the provider's client.
Transcribe(c) ==
    /\ Injected
    /\ Calls(c)
    /\ apiClient # <<>>
    /\ \E script \in Scripts : Returns(c, transcribeResult(apiClient[1], script))
    /\ UNCHANGED <<dockerServiceManager, apiClient, config, svcRunning, svcInfo,
                   startInvocations, stopInvocations>>
    /\ facadeIdle

\* startService() up to its await: the collaborator's startService() is
\* invoked, or, with no manager bound, false is returned at once.
StartCall(c) ==
    /\ Injected
    /\ Calls(c)
    /\ IF dockerServiceManager # NoService
       THEN /\ startInvocations' = startInvocations + 1
            /\ Awaits(c, "awaitStart", "")
       ELSE /\ Returns(c, startServiceUnbound)
            /\ UNCHANGED startInvocations
    /\ UNCHANGED <<dockerServiceManager, apiClient, config, svcRunning,
                   svcInfo, stopInvocations>>
    /\ facadeIdle

\* startService() that calls updateAPIClientPort() whatever the collaborator
\* returned.
StartReturnAlwaysUpdates(c) ==
    /\ Injected
    /\ \E outcome \in CallOutcomes, msg \in ErrMsgs, info \in Infos :
          /\ (outcome # "true" \/ svcRunning) => info = svcInfo
          /\ svcInfo' = info
          /\ svcRunning' = (svcRunning \/ outcome = "true")
          /\ apiClient' = updateAPIClientPort(dockerServiceManager,
                                  InfoThrows(info), InfoPorts(info), apiClient)
          /\ Resumes(c, "awaitStart", startServiceResult(outcome, msg))
    /\ UNCHANGED <<dockerServiceManager, config, startInvocations,
                   stopInvocations>>
    /\ facadeIdle

\* startService() after its await.  A collaborator start that succeeds on a
\* stopped service may have changed what getServiceInfo() gives (new
\* ports); updateAPIClientPort() then reads it.
StartReturn(c) ==
    /\ Injected
    /\ \E outcome \in CallOutcomes, msg \in ErrMsgs, info \in Infos :
          /\ (outcome # "true" \/ svcRunning) => info = svcInfo
          /\ svcInfo' = info
          /\ svcRunning' = (svcRunning \/ outcome = "true")
          /\ apiClient' = IF outcome = "true"
                          THEN updateAPIClientPort(dockerServiceManager,
                                  InfoThrows(info), InfoPorts(info), apiClient)
                          ELSE apiClient
          /\ Resumes(c, "awaitStart", startServiceResult(outcome, msg))
    /\ UNCHANGED <<dockerServiceManager, config, startInvocations,
                   stopInvocations>>
    /\ facadeIdle

\* stopService() up to its await.
StopCall(c) ==
    /\ Injected
    /\ Calls(c)
    /\ IF dockerServiceManager # NoService
       THEN /\ stopInvocations' = stopInvocations + 1
            /\ Awaits(c, "awaitStop", "")
       ELSE /\ Returns(c, stopServiceUnbound)
            /\ UNCHANGED stopInvocations
    /\ UNCHANGED <<dockerServiceManager, apiClient, config, svcRunning,
                   svcInfo, startInvocations>>
    /\ facadeIdle

\* stopService() that drops the API client once the service has stopped.
StopReturnClearsClient(c) ==
    /\ Injected
    /\ \E outcome \in CallOutcomes, msg \in ErrMsgs :
          /\ svcRunning' = (svcRunning /\ outcome # "true")
          /\ apiClient' = IF outcome = "true" THEN <<>> ELSE apiClient
          /\ Resumes(c, "awaitStop", stopServiceResult(outcome, msg))
    /\ UNCHANGED <<dockerServiceManager, config, svcInfo,
                   startInvocations, stopInvocations>>
    /\ facadeIdle

\* stopService() after its await.
StopReturn(c) ==
    /\ Injected
    /\ \E outcome \in CallOutcomes, msg \in ErrMsgs :
          /\ svcRunning' = (svcRunning /\ outcome # "true")
          /\ Resumes(c, "awaitStop", stopServiceResult(outcome, msg))
    /\ UNCHANGED <<dockerServiceManager, apiClient, config, svcInfo,
                   startInvocations, stopInvocations>>
    /\ facadeIdle

\* getServiceStatus() up to its await.
StatusCall(c) ==
    /\ Injected
    /\ Calls(c)
    /\ IF dockerServiceManager # NoService
       THEN Awaits(c, "awaitStatus", "")
       ELSE Returns(c, getServiceStatusUnbound)
    /\ UNCHANGED <<dockerServiceManager, apiClient, config, svcRunning,
                   svcInfo, startInvocations, stopInvocations>>
    /\ facadeIdle

\* getServiceStatus() that starts the service when the collaborator reports
\* it as not running.
StatusReturnStarting(c) ==
    /\ Injected
    /\ \E outcome \in {"true", "throw"}, health \in Healths,
          msg \in ErrMsgs \cup {""} :
          /\ outcome = "throw" => msg # ""
          /\ Resumes(c, "awaitStatus",
                     [getServiceStatusResult(outcome, svcRunning, health, msg)
                         EXCEPT !.report = StatusReport(outcome, svcRunning,
                                                        health, msg)])
    /\ svcRunning' = TRUE
    /\ startInvocations' = IF svcRunning THEN startInvocations
                           ELSE startInvocations + 1
    /\ UNCHANGED <<dockerServiceManager, apiClient, config, svcInfo,
                   stopInvocations>>
    /\ facadeIdle

\* getServiceStatus() after its await: the fake reports whether the
\* container runs, any health, and an error message or none; or it throws.
StatusReturn(c) ==
    /\ Injected
    /\ \E outcome \in {"true", "throw"}, health \in Healths,
          msg \in ErrMsgs \cup {""} :
          /\ outcome = "throw" => msg # ""
          /\ Resumes(c, "awaitStatus",
                     [getServiceStatusResult(outcome, svcRunning, health, msg)
                         EXCEPT !.report = StatusReport(outcome, svcRunning,
                                                        health, msg)])
    /\ UNCHANGED <<dockerServiceManager, apiClient, config, svcRunning,
                   svcInfo, startInvocations, stopInvocations>>
    /\ facadeIdle

\* isAvailable() up to the await of checkHealth() on the client the
\* apiClient field holds at that moment.
IsAvailableCall(c) ==
    /\ Injected
    /\ Calls(c)
    /\ IF apiClient # <<>>
       THEN Awaits(c, "awaitProbe", apiClient[1].baseUrl)
       ELSE Returns(c, isAvailableUnconfigured)
    /\ UNCHANGED <<dockerServiceManager, apiClient, config, svcRunning,
                   svcInfo, startInvocations, stopInvocations>>
    /\ facadeIdle

\* isAvailable() after the await of checkHealth().
IsAvailableReturn(c) ==
    /\ Injected
    /\ \E probe \in ProbeOutcomes :
          Resumes(c, "awaitProbe",
                  [isAvailableResult(held[c].url, probe) EXCEPT !.probe = probe])
    /\ UNCHANGED <<dockerServiceManager, apiClient, config, svcRunning,
                   svcInfo, startInvocations, stopInvocations>>
    /\ facadeIdle

\* getHealth() up to the await of checkHealth() inside its isAvailable().
GetHealthCall(c) ==
    /\ Injected
    /\ Calls(c)
    /\ IF apiClient # <<>>
       THEN Awaits(c, "awaitHealthProbe", apiClient[1].baseUrl)
       ELSE Returns(c, getHealthResult(isAvailableUnconfigured))
    /\ UNCHANGED <<dockerServiceManager, apiClient, config, svcRunning,
                   svcInfo, startInvocations, stopInvocations>>
    /\ facadeIdle

\* getHealth() after the await of isAvailable().
GetHealthReturn(c) ==
    /\ Injected
    /\ \E probe \in ProbeOutcomes :
          Resumes(c, "awaitHealthProbe",
                  [getHealthResult(isAvailableResult(held[c].url, probe))
                      EXCEPT !.probe = probe])
    /\ UNCHANGED <<dockerServiceManager, apiClient, config, svcRunning,
                   svcInfo, startInvocations, stopInvocations>>
    /\ facadeIdle

-----------------------------------------------------------------------------
(* The provider built on onServiceReady() and its WhisperDockerModel        *)
(* facades (src/src/WhisperDockerProvider.ts 357-473, WhisperDockerModel.ts) *)

\* ids of the _models list
ModelIds ==
    {"whisper-tiny", "whisper-base", "whisper-small", "whisper-medium",
     "whisper-large"}

\* ids callers ask getModel() for: two of the list, the README's
\* default id and an unknown one
RequestedIds == {"whisper-base", "whisper-large", "whisper-stt", "invalid-model"}

\* onServiceReady(): the apiClient field after the call.  ports[0] of an
\* empty list is undefined and the template literal prints it so; a throwing
\* getServiceInfo() rejects onServiceReady() before the assignment.
onServiceReady(infoThrows, ports, client) ==
    IF infoThrows
    THEN client
    ELSE IF ports # <<>>
         THEN <<Client(LocalUrl(ports[1]), DefaultTimeout)>>
         ELSE <<Client("http://localhost:" \o "undefined", DefaultTimeout)>>

\* new WhisperDockerModel({id, ..., apiClient}): the constructor copies the
\* client reference it is given.
WhisperDockerModel(id, client) == [id |-> id, apiClient |-> client]

\* getModel(modelId): the result returned or the error thrown.
getModelResult(modelId) ==
    IF modelId \in ModelIds
    THEN [NoResult EXCEPT !.op = "getModel", !.ok = TRUE, !.model = modelId]
    ELSE [NoResult EXCEPT !.op = "getModel", !.threw = TRUE,
                          !.err = "Model " \o modelId \o
                                  " not found in Whisper Docker Provider"]

\* WhisperDockerModel.transform(input, options): a fixed text and the model
\* id; input and options are not read and no request is made.
transformResult(model, input, task) ==
    [NoResult EXCEPT !.op = "transform", !.ok = TRUE,
                     !.text = "Transcribed text would be here",
                     !.model = model.id,
                     !.input = input, !.task = task]

\* WhisperDockerModel.isAvailable() of a model without a client.
modelIsAvailableNoClient == [NoResult EXCEPT !.op = "modelIsAvailable"]

\* WhisperDockerModel.isAvailable() once checkHealth() on the model's
\* client at url has settled: a rejection is caught and becomes false.
modelIsAvailableResult(url, probe) ==
    [NoResult EXCEPT !.op = "modelIsAvailable", !.url = url,
                     !.ok = (probe = "healthy")]

\* State of the part_000 provider, untouched by the facade operations.
providerIdle ==
    UNCHANGED <<variant, dockerServiceManager, apiClient, config,
                startInvocations, stopInvocations>>

\* A provider that no service has been ready for yet.
InitFacade ==
    /\ variant = "onServiceReady"
    /\ dockerServiceManager = NoService
    /\ apiClient = <<>>
    /\ config = <<>>
    /\ svcRunning = FALSE
    /\ svcInfo \in Infos
    /\ startInvocations = 0
    /\ stopInvocations = 0
    /\ pc = [c \in Callers |-> "idle"]
    /\ held = [c \in Callers |-> NoHeld]
    /\ ret = NoResult
    /\ ops = 0
    /\ facadeClient = <<>>
    /\ models = <<>>

\* The base class has (re)started the service, which may have been given
\* new ports, and calls onServiceReady().
ServiceReady ==
    /\ Facade
    /\ ~svcRunning
    /\ svcRunning' = TRUE
    /\ \E info \in Infos :
          /\ svcInfo' = info
          /\ facadeClient' = onServiceReady(InfoThrows(info), InfoPorts(info),
                                            facadeClient)
    /\ UNCHANGED <<models, pc, held, ret, ops>>
    /\ providerIdle

\* The base class has stopped the service.
ServiceStopped ==
    /\ Facade
    /\ svcRunning
    /\ svcRunning' = FALSE
    /\ UNCHANGED <<svcInfo, facadeClient, models, pc, held, ret, ops>>
    /\ providerIdle

\* getModel(modelId): runs to completion, it awaits nothing.
GetModel(c, modelId) ==
    /\ Facade
    /\ Calls(c)
    /\ Len(models) < MaxModels
    /\ Returns(c, getModelResult(modelId))
    /\ models' = IF modelId \in ModelIds
                 THEN Append(models, WhisperDockerModel(modelId, facadeClient))
                 ELSE models
    /\ UNCHANGED <<svcRunning, svcInfo, facadeClient>>
    /\ providerIdle

\* models[i].transform(input, options): runs to completion.
ModelTransform(c, i) ==
    /\ Facade
    /\ Calls(c)
    /\ \E input \in Inputs, task \in Tasks :
          Returns(c, transformResult(models[i], input, task))
    /\ UNCHANGED <<svcRunning, svcInfo, facadeClient, models>>
    /\ providerIdle

\* models[i].isAvailable() up to the await of checkHealth() on the model's
\* own client.
ModelIsAvailableCall(c, i) ==
    /\ Facade
    /\ Calls(c)
    /\ IF models[i].apiClient # <<>>
       THEN Awaits(c, "awaitModelProbe", models[i].apiClient[1].baseUrl)
       ELSE Returns(c, modelIsAvailableNoClient)
    /\ UNCHANGED <<svcRunning, svcInfo, facadeClient, models>>
    /\ providerIdle

\* models[i].isAvailable() after the await of checkHealth().
ModelIsAvailableReturn(c) ==
    /\ Facade
    /\ \E probe \in ProbeOutcomes :
          Resumes(c, "awaitModelProbe",
                  [modelIsAvailableResult(held[c].url, probe)
                      EXCEPT !.probe = probe])
    /\ UNCHANGED <<svcRunning, svcInfo, facadeClient, models>>
    /\ providerIdle

-----------------------------------------------------------------------------
(* A run uses one of the two providers *)

Init == InitInjected \/ InitFacade

Next ==
    \/ \E c \in Callers, cfg \in Configs : Configure(c, cfg)
    \/ \E c \in Callers : Transcribe(c)
    \/ \E c \in Callers : StartCall(c)
    \/ \E c \in Callers : StartReturn(c)
    \/ \E c \in Callers : StopCall(c)
    \/ \E c \in Callers : StopReturn(c)
    \/ \E c \in Callers : StatusCall(c)
    \/ \E c \in Callers : StatusReturn(c)
    \/ \E c \in Callers : IsAvailableCall(c)
    \/ \E c \in Callers : IsAvailableReturn(c)
    \/ \E c \in Callers : GetHealthCall(c)
    \/ \E c \in Callers : GetHealthReturn(c)
    \/ ServiceReady
    \/ ServiceStopped
    \/ \E c \in Callers, modelId \in RequestedIds : GetModel(c, modelId)
    \/ \E c \in Callers, i \in 1..Len(models) : ModelTransform(c, i)
    \/ \E c \in Callers, i \in 1..Len(models) : ModelIsAvailableCall(c, i)
    \/ \E c \in Callers : ModelIsAvailableReturn(c)

Spec == Init /\ [][Next]_vars

-----------------------------------------------------------------------------
(* Steps, as the properties below name them *)

\* Caller c calls an operation that suspends at label.
Begins(c, label) == pc[c] = "idle" /\ pc'[c] = label

\* The operation of c suspended at label completes; ret' is its result.
Completes(c, label) == pc[c] = label /\ pc'[c] = "idle"

\* The base URL of a client that is set.
UrlOf(client) == client[1].baseUrl

\* The first port getServiceInfo() reports, as the URL on localhost.
FirstPortUrl(info) == LocalUrl(InfoPorts(info)[1])

\* getServiceInfo() reports at least one port.
HasPorts(info) == ~InfoThrows(info) /\ InfoPorts(info) # <<>>

-----------------------------------------------------------------------------
(* C1 *)

\* C1: when a second start() begins while a first one is still awaiting
\* the collaborator, the collaborator's startService() is not invoked a
\* second time: the two concurrent calls are served by one invocation.
C1_ConcurrentStartsInvokeOnce ==
    [][ \A c \in Callers :
          ( /\ Begins(c, "awaitStart")
            /\ \E d \in Callers \ {c} : pc[d] = "awaitStart" )
          => startInvocations' = startInvocations ]_vars

-----------------------------------------------------------------------------
(* C2 *)

\* C2: a start() called while the service is already Running returns
\* without invoking the collaborator's startService() again.
C2_StartWhileRunningDoesNotReinvoke ==
    [][ \A c \in Callers :
          ( /\ Injected
            /\ Status = "Running"
            /\ pc[c] = "idle" /\ ops' = ops + 1
            /\ \/ Begins(c, "awaitStart")
               \/ pc' = pc /\ ret'.op = "start" /\ ret'.caller = c )
          => startInvocations' = startInvocations ]_vars

-----------------------------------------------------------------------------
(* C3 *)

\* C3: a stop() called while the service is Stopped returns success.
C3_StopWhileStoppedSucceeds ==
    (ret.op = "stop" /\ ret.before = "Stopped") => ret.ok

-----------------------------------------------------------------------------
(* C4 *)

\* C4: when the collaborator throws inside startService(), stopService() or
\* getServiceStatus(), the operation does not throw and the result it hands
\* its caller carries the message of the exception.
C4_CollaboratorExceptionCarried ==
    ret.thrown # "" => (~ret.threw /\ ret.err = ret.thrown)

-----------------------------------------------------------------------------
(* C5 *)

\* C5: after every start() that succeeds the client's base URL is
\* "http://localhost:" + the first port getServiceInfo() reports then.
C5_EndpointResolvedOnEveryStart ==
    [][ \A c \in Callers :
          (Completes(c, "awaitStart") /\ ret'.ok /\ HasPorts(svcInfo'))
          => (apiClient' # <<>> /\ UrlOf(apiClient') = FirstPortUrl(svcInfo'))
      ]_vars

-----------------------------------------------------------------------------
(* C6 *)

\* C6: every health request a model facade sends goes to the endpoint that
\* the most recent onServiceReady() resolved, whenever the model was made.
C6_ModelRequestsUseLatestEndpoint ==
    [][ \A c \in Callers :
          Begins(c, "awaitModelProbe")
          => (facadeClient # <<>> /\ held'[c].url = UrlOf(facadeClient))
      ]_vars

-----------------------------------------------------------------------------
(* C7 *)

\* C7: every base URL built from the service info is built from the first
\* port of the reported list: by the constructor, by configure() without a
\* baseUrl, by startService() (whenever it replaces the client, and always
\* when the first port is not 9000) and by onServiceReady().
C7_FirstPortSelected ==
    [][ /\ ( /\ Injected /\ ops = 0
             /\ dockerServiceManager # NoService /\ HasPorts(svcInfo) )
           => (apiClient # <<>> /\ UrlOf(apiClient) = FirstPortUrl(svcInfo))
        /\ ( /\ Injected /\ ops' = ops + 1 /\ pc' = pc
             /\ ret'.op = "configure"
             /\ apiClient = <<>> /\ config'[1].baseUrl = ""
             /\ dockerServiceManager' # NoService /\ HasPorts(svcInfo) )
           => UrlOf(apiClient') = FirstPortUrl(svcInfo)
        /\ \A c \in Callers :
             Completes(c, "awaitStart")
             => /\ apiClient' # apiClient
                   => ( /\ HasPorts(svcInfo')
                        /\ UrlOf(apiClient') = FirstPortUrl(svcInfo') )
                /\ ( /\ ret'.ok /\ HasPorts(svcInfo')
                     /\ InfoPorts(svcInfo')[1] # DefaultPort )
                   => UrlOf(apiClient') = FirstPortUrl(svcInfo')
        /\ (Facade /\ ~svcRunning /\ svcRunning' /\ HasPorts(svcInfo'))
           => UrlOf(facadeClient') = FirstPortUrl(svcInfo')
      ]_vars

\* A start has re-resolved the client from the two-port list [9001, 9002].
C7_Witness ==
    /\ Injected /\ ret.op = "start" /\ ret.ok
    /\ svcInfo = << <<9001, 9002>> >>
    /\ apiClient # <<>> /\ UrlOf(apiClient) = "http://localhost:9001"
    /\ config = <<>>

-----------------------------------------------------------------------------
(* C8 *)

\* C8: a start() during which the service info reports zero ports is a
\* failed start.
C8_ZeroPortsFailsStart ==
    [][ \A c \in Callers :
          (Completes(c, "awaitStart") /\ svcInfo' = << <<>> >>)
          => ~ret'.ok ]_vars

-----------------------------------------------------------------------------
(* C9 *)

\* C9: isAvailable() of the provider or of a model returns true only if
\* the lifecycle status is Running (when it was called or when it returns).
C9_AvailableOnlyWhenRunning ==
    [][ \A c \in Callers :
          ( /\ Completes(c, "awaitProbe") \/ Completes(c, "awaitModelProbe")
            /\ ret'.ok )
          => (Status = "Running" \/ ret'.before = "Running") ]_vars

-----------------------------------------------------------------------------
(* C10 *)

\* C10: isAvailable() of the provider and of a model, and getHealth(), never
\* raise to their caller, whatever checkHealth() does, and they report
\* available exactly when checkHealth() resolved true.
C10_ProbeNeverRaises ==
    ret.op \in {"isAvailable", "getHealth", "modelIsAvailable"}
    => (~ret.threw /\ (ret.ok <=> ret.probe = "healthy"))

\* An isAvailable() whose checkHealth() rejected has returned false.
C10_Witness ==
    /\ ret.op = "isAvailable" /\ ret.probe = "error"
    /\ ~ret.ok /\ ~ret.threw

-----------------------------------------------------------------------------
(* C11 *)

\* C11: a transform() called while the service status is not Running fails
\* with ServiceUnavailable and returns no transcription result (stated for
\* the payloads that pass the format and size validation, which no other
\* error kind can claim).
C11_TransformNeedsRunning ==
    ( /\ ret.op = "transform" /\ ret.before # "Running"
      /\ ValidInput(ret.input) )
    => (ret.threw /\ ret.err = "ServiceUnavailable" /\ ret.text = "")

-----------------------------------------------------------------------------
(* C12 *)

\* C12: a transform() of a file whose extension is outside the supported
\* set fails with UnsupportedFormat and sends no request; a file with a
\* supported extension is not refused as UnsupportedFormat.
C12_UnsupportedFormatRejected ==
    ret.op = "transform"
    => /\ Extension(ret.input.file) \notin SupportedFormats
          => (ret.threw /\ ret.err = "UnsupportedFormat" /\ ret.requests = 0)
       /\ Extension(ret.input.file) \in SupportedFormats
          => ret.err # "UnsupportedFormat"

-----------------------------------------------------------------------------
(* C13 *)

\* C13: a transform() of an audio payload larger than 25 MB fails with
\* PayloadTooLarge and sends no request (stated for a supported format on a
\* Running service, where no other validation can fail first).
C13_PayloadTooLargeRejected ==
    ( /\ ret.op = "transform" /\ ret.input.mb > MaxFileSizeMB
      /\ Extension(ret.input.file) \in SupportedFormats
      /\ ret.before = "Running" )
    => (ret.threw /\ ret.err = "PayloadTooLarge" /\ ret.requests = 0)

-----------------------------------------------------------------------------
(* C14 *)

\* C14: a transform() with task translate on a model whose manifest entry
\* declares no translation capability fails with UnsupportedCapability and
\* sends no request (stated for a valid payload on a Running service).
C14_UnsupportedCapabilityRejected ==
    ( /\ ret.op = "transform" /\ ret.task = "translate"
      /\ "translation" \notin Capabilities(ret.model)
      /\ ValidInput(ret.input) /\ ret.before = "Running" )
    => (ret.threw /\ ret.err = "UnsupportedCapability" /\ ret.requests = 0)

-----------------------------------------------------------------------------
(* C15 *)

\* The provider's client is the one configure() built from the stored
\* config, which names a base URL.
ClientBuiltFromConfig ==
    /\ config # <<>> /\ config[1].baseUrl # ""
    /\ apiClient = <<Client(config[1].baseUrl,
                            IF config[1].timeout # 0 THEN config[1].timeout
                            ELSE DefaultTimeout)>>

\* The retries configured for the provider's client: those of the config it
\* was built from, the default of 1 otherwise.
ConfiguredRetries ==
    IF ClientBuiltFromConfig /\ config[1].retries # <<>>
    THEN config[1].retries[1]
    ELSE DefaultRetries

\* C15: when every attempt of a transcription request fails with a transport
\* error or a timeout, exactly 1 + the configured retries attempts are made
\* (2 by default) and the call fails with ServiceUnavailable.
C15_ExactlyMaxAttempts ==
    ( /\ ret.op = "transcribe"
      /\ \A i \in 1..Len(ret.answers) : ret.answers[i] \in Retryable )
    => /\ ret.requests = ConfiguredRetries + 1
       /\ ret.threw /\ ret.err = "ServiceUnavailable"

-----------------------------------------------------------------------------
(* C16 *)

\* C16: a 4xx answer of the remote ends the transcription call: it is the
\* last answer the call received, the call fails with InvalidRequest, a 4xx
\* answer to the first attempt means one request in total, and every answer
\* that was followed by another attempt is a transport failure or a timeout.
C16_Remote4xxIsTerminal ==
    ret.op = "transcribe"
    => /\ ret.requests = Len(ret.answers)
       /\ \A i \in 1..Len(ret.answers) :
             /\ ret.answers[i] = "http400"
                => /\ i = Len(ret.answers)
                   /\ ret.threw /\ ret.err = "InvalidRequest"
             /\ i < Len(ret.answers) => ret.answers[i] \in Retryable

\* A call whose first request was answered with a 4xx has failed with
\* InvalidRequest after that one request.
C16_Witness ==
    /\ ret.op = "transcribe" /\ ret.answers = <<"http400">>
    /\ ret.requests = 1 /\ ret.threw /\ ret.err = "InvalidRequest"

-----------------------------------------------------------------------------
(* C17 *)

\* C17: when a start() or stop() of a caller has failed in the collaborator
\* (it returned false or threw) and no start is under way, the
\* getServiceStatus() the caller makes next reports an error, and the error
\* is the message of the exception if the collaborator threw.
C17_FailureRecorded ==
    [][ \A c \in Callers :
          ( /\ Completes(c, "awaitStatus")
            /\ ret.op \in {"start", "stop"} /\ ret.caller = c /\ ~ret.ok
            /\ dockerServiceManager # NoService
            /\ \A d \in Callers : pc[d] # "awaitStart" )
          => /\ ret'.err # ""
             /\ ret.thrown # "" => ret'.err = ret.thrown ]_vars

-----------------------------------------------------------------------------
(* C18 *)

\* C18: after a failed start() of a caller, the next start() of that caller
\* invokes the collaborator's startService() again, and if the collaborator
\* then reports success and a port, the service is running and the client's
\* base URL is resolved from the first port reported.
C18_StartAfterFailure ==
    [][ \A c \in Callers :
          ( /\ ret.op = "start" /\ ret.caller = c /\ ~ret.ok
            /\ dockerServiceManager # NoService )
          => /\ Begins(c, "awaitStart")
                => startInvocations' = startInvocations + 1
             /\ (Completes(c, "awaitStart") /\ ret'.ok /\ HasPorts(svcInfo'))
                => /\ svcRunning'
                   /\ apiClient' # <<>>
                   /\ UrlOf(apiClient') = FirstPortUrl(svcInfo') ]_vars

-----------------------------------------------------------------------------
(* C19 *)

\* C19: at most one startService()/stopService() call of the collaborator
\* is in flight at any time.
C19_TransitionsSerialized ==
    Cardinality({c \in Callers : pc[c] \in {"awaitStart", "awaitStop"}}) <= 1

-----------------------------------------------------------------------------
(* C20 *)

\* A client that is set and whose base URL is the one resolution yields for
\* the first port of some reported port list.
WhollyResolved(client) ==
    /\ client # <<>>
    /\ \E ports \in PortLists :
          ports # <<>> /\ UrlOf(client) = LocalUrl(ports[1])

\* C20: whenever getModel() hands out a model and whenever a model sends a
\* health request, also while the service is being (re)started or stopped,
\* the client it takes is set and its base URL comes wholly from one
\* resolution; a provider's isAvailable() probes the base URL the provider
\* holds at that moment.
C20_AtomicEndpointSnapshot ==
    [][ /\ ( /\ Facade /\ ops' = ops + 1 /\ pc' = pc
             /\ ret'.op = "getModel" /\ ~ret'.threw )
           => WhollyResolved(models'[Len(models')].apiClient)
        /\ \A c \in Callers :
             /\ Begins(c, "awaitModelProbe")
                => \E i \in 1..Len(models) :
                      /\ WhollyResolved(models[i].apiClient)
                      /\ held'[c].url = UrlOf(models[i].apiClient)
             /\ Begins(c, "awaitProbe")
                => (apiClient # <<>> /\ held'[c].url = UrlOf(apiClient))
      ]_vars

-----------------------------------------------------------------------------
(* C21 *)

\* A step of getServiceStatus() by caller c: its call or its return.
StatusStep(c) ==
    \/ Begins(c, "awaitStatus")
    \/ Completes(c, "awaitStatus")
    \/ /\ pc[c] = "idle" /\ pc' = pc /\ ops' = ops + 1
       /\ ret'.op = "status" /\ ret'.caller = c

\* C21: every step of getServiceStatus() leaves the lifecycle status, the
\* API client, the config, the docker service binding and the service
\* itself unchanged and invokes neither startService() nor stopService().
C21_StatusIsReadOnly ==
    [][ \A c \in Callers :
          StatusStep(c)
          => /\ Status' = Status
             /\ UNCHANGED <<apiClient, dockerServiceManager, config,
                            svcRunning, svcInfo,
                            startInvocations, stopInvocations>> ]_vars

\* A getServiceStatus() has returned on a stopped provider that has a
\* client and a bound docker service.
C21_Witness ==
    /\ ret.op = "status" /\ ~ret.running /\ ret.thrown = ""
    /\ ~svcRunning /\ apiClient # <<>> /\ dockerServiceManager # NoService

-----------------------------------------------------------------------------
(* C29 *)

\* The getServiceStatus() that returned last found no docker service bound.
StatusUnbound == ret.report = <<>> /\ ret.thrown = ""

\* C29 as stated: healthy is true exactly when the reported health is
\* 'healthy'; an error message is returned exactly when the reported health
\* is 'unhealthy', the collaborator threw or none is bound (then with
\* running and healthy false); health 'unknown' never carries an error.
C29_StatusReduction ==
    ret.op = "status"
    => /\ ret.ok <=> (ret.report # <<>> /\ ret.report[1].health = "healthy")
       /\ ret.err # ""
          <=> \/ ret.report # <<>> /\ ret.report[1].health = "unhealthy"
              \/ ret.thrown # ""
              \/ StatusUnbound
       /\ (ret.thrown # "" \/ StatusUnbound) => (~ret.running /\ ~ret.ok)
       /\ (ret.report # <<>> /\ ret.report[1].health = "unknown")
          => ret.err = ""

\* C29 amended: healthy is true exactly when the reported health is
\* 'healthy'; with reported health 'unhealthy' the error returned is the
\* error the collaborator reported, which may be absent; with any other
\* reported health no error is returned; when the collaborator throws the
\* error is its message, when none is bound it is 'No Docker service
\* manager', and in these two cases running and healthy are false.
C29_StatusReductionForwarded ==
    ret.op = "status"
    => /\ ret.ok <=> (ret.report # <<>> /\ ret.report[1].health = "healthy")
       /\ ret.report # <<>>
          => /\ ret.running = ret.report[1].running
             /\ ret.err = IF ret.report[1].health = "unhealthy"
                          THEN ret.report[1].error ELSE ""
       /\ ret.thrown # "" => ret.err = ret.thrown
       /\ StatusUnbound => ret.err = "No Docker service manager"
       /\ (ret.thrown # "" \/ StatusUnbound) => (~ret.running /\ ~ret.ok)

\* A getServiceStatus() has returned the error of an unhealthy report.
C29_Witness ==
    /\ ret.op = "status" /\ ret.report # <<>>
    /\ ret.report[1].health = "unhealthy" /\ ret.report[1].error # ""
    /\ ret.err = ret.report[1].error /\ ~ret.ok

-----------------------------------------------------------------------------
(* C22 *)

\* C22: once a configure() with a baseUrl has returned, the client targets
\* exactly that baseUrl, whatever the provider held before.
C22_ConfiguredBaseUrlUsed ==
    (ret.op = "configure" /\ config[1].baseUrl # "")
    => (apiClient # <<>> /\ UrlOf(apiClient) = config[1].baseUrl)

-----------------------------------------------------------------------------
(* C23 *)

\* The default request timeout of the manifest's configSchema, in ms.
ManifestDefaultTimeout == 300000

\* C23: after a configure() without timeout and retries the client has a
\* request timeout of 300000 ms and makes 1 retry, and so does the client
\* that onServiceReady() creates.
C23_DefaultTimeoutAndRetries ==
    /\ ( /\ ret.op = "configure"
         /\ config[1].timeout = 0 /\ config[1].retries = <<>>
         /\ apiClient # <<>> )
       => /\ apiClient[1].timeout = ManifestDefaultTimeout
          /\ MaxAttempts(apiClient[1]) = 1 + 1
    /\ (Facade /\ facadeClient # <<>>)
       => /\ facadeClient[1].timeout = ManifestDefaultTimeout
          /\ MaxAttempts(facadeClient[1]) = 1 + 1

-----------------------------------------------------------------------------
(* C24 *)

\* The model ids the manifest and the README declare.
ManifestModelIds ==
    {"whisper-stt", "whisper-base", "whisper-small", "whisper-medium",
     "whisper-large"}

\* C24: getModel(id) does not fail with 'not found' for an id the manifest
\* declares, and every model it returns is bound to a declared id.
C24_GetModelAcceptsManifestIds ==
    ret.op = "getModel"
    => /\ \A id \in ManifestModelIds :
             ~(ret.threw /\ ret.err = "Model " \o id \o
                                      " not found in Whisper Docker Provider")
       /\ ret.ok => ret.model \in ManifestModelIds

-----------------------------------------------------------------------------
(* C25 *)

\* The text the fake remote returns for every transcription request.
RemoteText == "hello world"

\* C25: with the service Running, a transform() of a valid input sends the
\* request and returns the text the remote returned, with the id of the
\* bound model.
C25_TransformReturnsRemoteText ==
    ( /\ ret.op = "transform" /\ ret.before = "Running"
      /\ ValidInput(ret.input) /\ ret.task = "transcribe" )
    => /\ ret.requests = 1
       /\ ret.text = RemoteText
       /\ ret.model \in ModelIds

-----------------------------------------------------------------------------
(* C26 *)

\* A step of startService() by caller c: its call or its return.
StartStep(c) ==
    \/ Begins(c, "awaitStart")
    \/ Completes(c, "awaitStart")
    \/ /\ pc[c] = "idle" /\ pc' = pc /\ ops' = ops + 1
       /\ ret'.op = "start" /\ ret'.caller = c

\* C26: a step of startService() changes the API client only when it is the
\* return of a start whose collaborator call returned true; a start that
\* returns false (collaborator false, throwing, or none bound) leaves the
\* client as it was.
C26_FailedStartKeepsClient ==
    [][ \A c \in Callers :
          StartStep(c)
          => /\ apiClient' # apiClient
                => (Completes(c, "awaitStart") /\ ret'.ok)
             /\ (ret'.op = "start" /\ ret'.caller = c /\ ~ret'.ok
                 /\ ~Begins(c, "awaitStart"))
                => apiClient' = apiClient ]_vars

\* A start has failed on a provider whose client does not target the first
\* port the service reports: updateAPIClientPort() would have replaced it.
C26_Witness ==
    /\ ret.op = "start" /\ ~ret.ok
    /\ dockerServiceManager # NoService
    /\ apiClient # <<>> /\ HasPorts(svcInfo)
    /\ InfoPorts(svcInfo)[1] # DefaultPort
    /\ UrlOf(apiClient) # FirstPortUrl(svcInfo)

-----------------------------------------------------------------------------
(* C27 *)

\* A step of stopService() by caller c: its call or its return.
StopStep(c) ==
    \/ Begins(c, "awaitStop")
    \/ Completes(c, "awaitStop")
    \/ /\ pc[c] = "idle" /\ pc' = pc /\ ops' = ops + 1
       /\ ret'.op = "stop" /\ ret'.caller = c

\* C27: no step of stopService() changes the API client, and a stop of the
\* service changes neither the onServiceReady provider's client nor the
\* client of any model handed out; isAvailable() of the provider and of a
\* model probes the base URL of the client the object holds.
C27_StopKeepsClient ==
    [][ /\ \A c \in Callers :
             /\ StopStep(c) => apiClient' = apiClient
             /\ Begins(c, "awaitProbe")
                => (apiClient # <<>> /\ held'[c].url = UrlOf(apiClient))
             /\ Begins(c, "awaitModelProbe")
                => \E i \in 1..Len(models) :
                      /\ models[i].apiClient # <<>>
                      /\ held'[c].url = UrlOf(models[i].apiClient)
        /\ (svcRunning /\ ~svcRunning')
           => UNCHANGED <<apiClient, facadeClient, models>>
      ]_vars

\* A stop has succeeded and stopped the service, and the provider still has
\* its client.
C27_Witness ==
    /\ ret.op = "stop" /\ ret.ok /\ ret.before = "Running"
    /\ ~svcRunning /\ apiClient # <<>>

-----------------------------------------------------------------------------
(* C28 *)

\* C28: a bound docker service is never replaced, and a configure() on a
\* provider without one binds the first alias the config has, in the order
\* dockerServiceManager, dockerService, service.
C28_BindingSetOnce ==
    [][ /\ dockerServiceManager # NoService
           => dockerServiceManager' = dockerServiceManager
        /\ ( /\ dockerServiceManager = NoService
             /\ Injected /\ ops' = ops + 1 /\ pc' = pc
             /\ ret'.op = "configure" )
           => dockerServiceManager' =
                 IF config'[1].dockerServiceManager # NoService
                 THEN config'[1].dockerServiceManager
                 ELSE IF config'[1].dockerService # NoService
                 THEN config'[1].dockerService
                 ELSE config'[1].service
        /\ dockerServiceManager' # dockerServiceManager
           => (ret'.op = "configure" /\ ops' = ops + 1)
      ]_vars

\* A configure() bound config.dockerService (and not config.service), and a
\* later configure() naming another service left the binding alone.
C28_Witness ==
    /\ dockerServiceManager = "dockSvc"
    /\ ret.op = "configure"
    /\ config[1].dockerServiceManager = "mgrSvc"

====
